---- MODULE Spec2Model ----
(***************************************************************************)
(* Runs of ClaudeRunner and CodexRunner (takopi): session locks, the       *)
(* subprocess of each run, the translation of backend output lines into    *)
(* events and the events delivered to the caller.                          *)
(***************************************************************************)
EXTENDS Integers, Sequences, FiniteSets, TLC

\* ---------------------------------------------------------------- bounds
\* NumRuns concurrent runs; MaxLines lines read by the single run of
\* SpecStream. The concurrent specification trades lines for runs to stay
\* checkable: two runs read two lines each, three runs one line each.
NumRuns == 2
MaxLines == 3
MaxCoreLines == IF NumRuns <= 2 THEN 2 ELSE 1

Runs == 1..NumRuns
Engines == {"claude", "codex"}
Values == {"s1", "s2"}

\* ------------------------------------------------------------ event model
ResumeToken(e, v) == [engine |-> e, value |-> v]
\* Python None where a ResumeToken is expected
None == [engine |-> "", value |-> ""]
Tokens == {ResumeToken(e, v) : e \in Engines, v \in Values}
\* the keys the lock registry can be asked for
Locks == Tokens \cup {None}

StartedEvent(tok) == [type |-> "started", resume |-> tok]
\* id is a tuple: <<id>> for a backend-assigned id, <<prefix, n>> for a
\* generated one; ok is "True", "False" or "None"; level is "" when absent;
\* title is the action's title where the runs depend on it, detail names the
\* key of the action's detail dict ("" for none)
ActionEvent(id, kind, phase, ok, level) ==
    [type |-> "action", id |-> id, kind |-> kind, phase |-> phase,
     ok |-> ok, level |-> level, title |-> "", detail |-> ""]
CompletedEvent(ok, answer, resume, error) ==
    [type |-> "completed", ok |-> ok, answer |-> answer,
     resume |-> resume, error |-> error]

\* _note_completed(next_note_id(), message, ok=False, detail={key: ...})
NoteCompleted(e, seq, message, key) ==
    [ActionEvent(<<e \o ".note", seq>>, "warning", "completed", "False",
                 "warning")
     EXCEPT !.title = message, !.detail = key]

\* ---------------------------------------------------- backend output lines
\* A line of the child's stdout as iter_jsonl hands it over: "bad" is a line
\* whose data is None; the other types are decoded records.
ClaudeCoreLines ==
    {[type |-> "system.init", session_id |-> v] : v \in Values}
    \cup {[type |-> "result", is_error |-> FALSE, result |-> "r",
           session_id |-> "s1", denials |-> 0]}

ClaudeLines ==
    {[type |-> "bad"], [type |-> "unknown"]}
    \cup {[type |-> "system.init", session_id |-> v] : v \in Values \cup {""}}
    \cup {[type |-> "assistant.text", text |-> t] : t \in {"t1", "t2"}}
    \cup {[type |-> "assistant.tool_use", id |-> "x", name |-> n] :
             n \in {"Bash", "Write"}}
    \cup {[type |-> "user.tool_result", id |-> "x", is_error |-> b] :
             b \in BOOLEAN}
    \cup {[type |-> "result", is_error |-> b, result |-> t,
           session_id |-> v, denials |-> d] :
             b \in BOOLEAN, t \in {"", "r"}, v \in {"", "s1"}, d \in {0, 1}}

CodexCoreLines ==
    {[type |-> "thread.started", thread_id |-> v] : v \in Values}
    \cup {[type |-> "turn.completed"]}

CodexLines ==
    {[type |-> "bad"], [type |-> "unknown"], [type |-> "turn.completed"],
     [type |-> "turn.started"], [type |-> "turn.rate_limited"]}
    \cup {[type |-> "thread.started", thread_id |-> v] : v \in Values \cup {""}}
    \cup {[type |-> "error", fatal |-> f, message |-> m] :
             f \in {"true", "none", "false"}, m \in {"", "boom"}}
    \cup {[type |-> "turn.failed", error |-> s] : s \in {"dict", "none", "str"}}
    \cup {[type |-> "item.completed", item_type |-> "agent_message",
           text |-> t] : t \in {"t1", "t2"}}
    \cup {[type |-> p, item_type |-> "command_execution", id |-> "x"] :
             p \in {"item.started", "item.completed"}}
    \cup {[type |-> "item.completed", item_type |-> "error", id |-> "e"]}

LinesOf(e, rich) ==
    IF e = "claude" THEN (IF rich THEN ClaudeLines ELSE ClaudeCoreLines)
    ELSE (IF rich THEN CodexLines ELSE CodexCoreLines)

VARIABLES
    scope,                  \* which runs may start and which lines are fed
    engine,                 \* runner class of each run
    resume_token,           \* the resume argument of run()
    pc,                     \* position of each run
    proc,                   \* the child process of each run
    owner,                  \* lock registry: holder of each session lock
    resume_lock,            \* lock held by run_with_resume_lock, or None
    session_lock,           \* _run's session_lock
    session_lock_acquired,  \* _run's session_lock_acquired
    found_session,          \* _run's found_session
    did_emit_completed,     \* _run's did_emit_completed
    state,                  \* ClaudeStreamState of the run
    final_answer,           \* CodexRunner._run's final_answer
    turn_index,             \* CodexRunner._run's turn_index
    note_seq,               \* _run's note_seq
    json_line,              \* the line being processed
    nread,                  \* lines read from stdout so far
    rc,                     \* exit code obtained by proc.wait()
    exc,                    \* exception that ended the run, "" if none
    out,                    \* events delivered to the caller
    stderr_chunks,          \* _run's stderr_chunks, the retained stderr tail
    call                    \* a call of format_resume / extract_resume

runvars == <<scope, engine, resume_token, pc, proc, owner, resume_lock,
             session_lock, session_lock_acquired, found_session,
             did_emit_completed, state, final_answer, turn_index, note_seq,
             json_line, nread, rc, exc, out, stderr_chunks>>

vars == <<scope, engine, resume_token, pc, proc, owner, resume_lock,
          session_lock, session_lock_acquired, found_session,
          did_emit_completed, state, final_answer, turn_index, note_seq,
          json_line, nread, rc, exc, out, stderr_chunks, call>>

\* ------------------------------------------------------- lock registry
\* SessionLockMixin.lock_for: one lock per resume token; the lock is named by
\* the token it belongs to.
LockForShared(tok) == ResumeToken("claude", "s1")

LockFor(tok) == tok

\* run_with_resume_lock takes the lock only when a resume token is supplied
ResumeLockNeverNeeded(tok) == FALSE

ResumeLockAlways(tok) == TRUE

ResumeLockNeeded(tok) == tok # None

\* anyio.Lock: acquire proceeds only while the lock has no owner
LockAlwaysFree(l) == TRUE

LockFree(l) == owner[l] = 0

\* ------------------------------------------------------ claude translator
\* Concurrent runs are fed a session record, tool calls, tool results, free
\* text, an undecodable line and the terminal record.
ClaudePairLines ==
    {[type |-> "bad"], [type |-> "system.init", session_id |-> "s1"],
     [type |-> "assistant.text", text |-> "t1"],
     [type |-> "assistant.tool_use", id |-> "x", name |-> "Bash"],
     [type |-> "user.tool_result", id |-> "x", is_error |-> FALSE],
     [type |-> "result", is_error |-> FALSE, result |-> "",
      session_id |-> "s1", denials |-> 0]}

CodexPairLines ==
    {[type |-> "turn.completed"],
     [type |-> "thread.started", thread_id |-> "s1"],
     [type |-> "item.completed", item_type |-> "agent_message", text |-> "t1"],
     [type |-> "item.completed", item_type |-> "command_execution", id |-> "x"]}

InitialClaudeState == [pending_actions |-> {}, last_assistant_text |-> ""]

\* _tool_kind_and_title with KillShell and MultiEdit left out of its sets
_tool_kind_short(name) ==
    CASE name \in {"Bash", "Shell"} -> "command"
      [] name \in {"Edit", "Write", "NotebookEdit"} -> "file_change"
      [] name \in {"WebSearch", "WebFetch"} -> "web_search"
      [] name \in {"TodoWrite", "TodoRead", "AskUserQuestion"} -> "note"
      [] OTHER -> "tool"

_tool_kind(name) ==
    CASE name \in {"Bash", "Shell", "KillShell"} -> "command"
      [] name \in {"Edit", "Write", "NotebookEdit", "MultiEdit"} -> "file_change"
      [] name \in {"WebSearch", "WebFetch"} -> "web_search"
      [] name \in {"TodoWrite", "TodoRead", "AskUserQuestion"} -> "note"
      [] OTHER -> "tool"

\* the title _tool_kind_and_title gives a tool call without input
_tool_title(name) ==
    CASE name = "Read" -> "read"
      [] name = "Glob" -> "glob"
      [] name = "Grep" -> "grep"
      [] name = "WebSearch" -> "search"
      [] name = "WebFetch" -> "fetch"
      [] name = "TodoWrite" -> "update todos"
      [] name = "TodoRead" -> "read todos"
      [] name = "AskUserQuestion" -> "ask user"
      [] OTHER -> name

\* state.pending_actions[action.id] = action
NeverAddPending(pending, id, kind, title) == pending

AddPending(pending, id, kind, title) ==
    {p \in pending : p[1] # id} \cup {<<id, kind, title>>}

\* what state.pending_actions.pop(tool_use_id, None) leaves behind
KeepPending(pending, id) == pending

PopPending(pending, id) == {p \in pending : p[1] # id}

\* state.pending_actions.pop(tool_use_id, None), else the synthetic
\* Action(kind="tool", title="tool result")
SyntheticKind(st, id) == "tool"

PendingKind(st, id) ==
    IF \E p \in st.pending_actions : p[1] = id
    THEN (CHOOSE p \in st.pending_actions : p[1] = id)[2]
    ELSE "tool"

PendingTitle(st, id) ==
    IF \E p \in st.pending_actions : p[1] = id
    THEN (CHOOSE p \in st.pending_actions : p[1] = id)[3]
    ELSE "tool result"

\* if ok and not result_text and state.last_assistant_text:
\*     result_text = state.last_assistant_text
NoAnswerFallback(ok, result_text, last_assistant_text) == result_text

AnswerFallback(ok, result_text, last_assistant_text) ==
    IF ok /\ result_text = "" /\ last_assistant_text # ""
    THEN last_assistant_text ELSE result_text

\* translate_claude_event: the events of one decoded record and the state
\* after it
translate_claude_event(event, st) ==
    CASE event.type = "system.init" ->
           [events |-> IF event.session_id = "" THEN <<>>
                       ELSE <<StartedEvent(ResumeToken("claude", event.session_id))>>,
            state |-> st]
      [] event.type = "assistant.text" ->
           [events |-> <<>>,
            state |-> [st EXCEPT !.last_assistant_text = event.text]]
      [] event.type = "assistant.tool_use" ->
           [events |-> <<[ActionEvent(<<event.id>>, _tool_kind(event.name),
                                      "started", "None", "")
                          EXCEPT !.title = _tool_title(event.name)]>>,
            state |-> [st EXCEPT !.pending_actions =
                          AddPending(@, event.id, _tool_kind(event.name),
                                     _tool_title(event.name))]]
      [] event.type = "user.tool_result" ->
           [events |-> <<[ActionEvent(<<event.id>>, PendingKind(st, event.id),
                                      "completed",
                                      IF event.is_error THEN "False" ELSE "True",
                                      "")
                          EXCEPT !.title = PendingTitle(st, event.id)]>>,
            state |-> [st EXCEPT !.pending_actions = PopPending(@, event.id)]]
      [] event.type = "result" ->
           [events |->
              (IF event.denials > 0
               THEN <<[ActionEvent(<<"claude.permission", 0>>, "warning",
                                   "completed", "False", "warning")
                       EXCEPT !.title = "permission denied",
                              !.detail = "denial"]>>
               ELSE <<>>)
              \o <<CompletedEvent(
                     ~event.is_error,
                     AnswerFallback(~event.is_error, event.result,
                                    st.last_assistant_text),
                     IF event.session_id # ""
                     THEN ResumeToken("claude", event.session_id) ELSE None,
                     IF ~event.is_error THEN "" ELSE "claude run failed")>>,
            state |-> st]
      [] OTHER -> [events |-> <<>>, state |-> st]

\* ------------------------------------------------------- codex translator
translate_codex_event(event) ==
    CASE event.type = "thread.started" ->
           IF event.thread_id # ""
           THEN <<StartedEvent(ResumeToken("codex", event.thread_id))>>
           ELSE <<>>
      [] event.type \in {"item.started", "item.updated", "item.completed"} ->
           IF event.item_type = "error"
           THEN IF event.type = "item.completed"
                THEN <<[ActionEvent(<<event.id>>, "warning", "completed",
                                    "False", "warning")
                        EXCEPT !.title = "codex item error",
                               !.detail = "message"]>>
                ELSE <<>>
           ELSE IF event.item_type = "command_execution"
           THEN <<ActionEvent(<<event.id>>, "command",
                              IF event.type = "item.started" THEN "started"
                              ELSE IF event.type = "item.updated" THEN "updated"
                              ELSE "completed",
                              IF event.type = "item.completed" THEN "True"
                              ELSE "None", "")>>
           ELSE <<>>
      [] OTHER -> <<>>

\* ------------------------------------------------------------- the runs
NoLine == [type |-> "none"]

InitRuns ==
    /\ engine = [r \in Runs |-> "claude"]
    /\ resume_token = [r \in Runs |-> None]
    /\ pc = [r \in Runs |-> "idle"]
    /\ proc = [r \in Runs |-> "none"]
    /\ owner = [l \in Locks |-> 0]
    /\ resume_lock = [r \in Runs |-> None]
    /\ session_lock = [r \in Runs |-> None]
    /\ session_lock_acquired = [r \in Runs |-> FALSE]
    /\ found_session = [r \in Runs |-> None]
    /\ did_emit_completed = [r \in Runs |-> FALSE]
    /\ state = [r \in Runs |-> InitialClaudeState]
    /\ final_answer = [r \in Runs |-> ""]
    /\ turn_index = [r \in Runs |-> 0]
    /\ note_seq = [r \in Runs |-> 0]
    /\ json_line = [r \in Runs |-> NoLine]
    /\ nread = [r \in Runs |-> 0]
    /\ rc = [r \in Runs |-> -1]
    /\ exc = [r \in Runs |-> ""]
    /\ out = [r \in Runs |-> <<>>]
    /\ stderr_chunks = [r \in Runs |-> <<>>]

\* no resume line is being formatted or parsed
NoCall == [at |-> "none"]

\* concurrent runs on one runner object, fed session and terminal records
Init ==
    /\ scope \in {[runs |-> Runs, engine |-> e, rich |-> FALSE, pair |-> FALSE,
                    maxlines |-> MaxCoreLines] : e \in Engines}
    /\ InitRuns
    /\ call = NoCall

\* one run fed every kind of line
InitStream ==
    /\ scope \in {[runs |-> {1}, engine |-> e, rich |-> TRUE, pair |-> FALSE,
                    maxlines |-> MaxLines] : e \in Engines}
    /\ InitRuns
    /\ call = NoCall

\* found_session or resume_token
ResumeForCompleted(r) ==
    IF found_session[r] # None THEN found_session[r] ELSE resume_token[r]

\* Leaving _run and run_with_resume_lock on any path: the finally of _run
\* releases session_lock when session_lock_acquired, manage_subprocess
\* terminates the child, the async with of run_with_resume_lock releases the
\* resume lock. Releasing a lock the task does not hold raises RuntimeError
\* (anyio.Lock.release) and leaves the lock as it is.
ReleaseFails(r) ==
    /\ session_lock[r] # None
    /\ session_lock_acquired[r]
    /\ owner[session_lock[r]] # r

OwnerAfterUnwind(r) ==
    [l \in Locks |->
        IF /\ owner[l] = r
           /\ \/ l = resume_lock[r]
              \/ (l = session_lock[r] /\ session_lock_acquired[r])
        THEN 0 ELSE owner[l]]

Unwind(r, how, e) ==
    /\ owner' = OwnerAfterUnwind(r)
    /\ resume_lock' = [resume_lock EXCEPT ![r] = None]
    /\ pc' = [pc EXCEPT ![r] = IF ReleaseFails(r) THEN "raised" ELSE how]
    /\ exc' = [exc EXCEPT ![r] = IF ReleaseFails(r) THEN "release" ELSE e]

\* the resume tokens the runs of this scope are started with: none or a
\* token of the runner's engine
ScopeTokens ==
    {None} \cup {t \in Tokens : /\ t.engine = scope.engine
                                /\ scope.pair => t.value = "s1"}

\* run(prompt, resume): run_with_resume_lock takes the lock of a supplied
\* token before _run is entered. The runs are interchangeable, so they are
\* started in the order of their numbers.
Start(r, tok) ==
    /\ pc[r] = "idle"
    /\ r \in scope.runs
    /\ \A q \in Runs : q < r => pc[q] # "idle"
    /\ tok \in ScopeTokens
    /\ engine' = [engine EXCEPT ![r] = scope.engine]
    /\ resume_token' = [resume_token EXCEPT ![r] = tok]
    /\ pc' = [pc EXCEPT ![r] = IF ResumeLockNeeded(tok) THEN "lock_wait"
                               ELSE "spawn"]
    /\ UNCHANGED <<call, stderr_chunks,
                   scope, proc, owner, resume_lock, session_lock,
                   session_lock_acquired, found_session, did_emit_completed,
                   state, final_answer, turn_index, note_seq, json_line,
                   nread, rc, exc, out>>

AcquireResumeLock(r) ==
    /\ pc[r] = "lock_wait"
    /\ LockFree(LockFor(resume_token[r]))
    /\ owner' = [owner EXCEPT ![LockFor(resume_token[r])] = r]
    /\ resume_lock' = [resume_lock EXCEPT ![r] = LockFor(resume_token[r])]
    /\ pc' = [pc EXCEPT ![r] = "spawn"]
    /\ UNCHANGED <<call, stderr_chunks,
                   scope, engine, resume_token, proc, session_lock,
                   session_lock_acquired, found_session, did_emit_completed,
                   state, final_answer, turn_index, note_seq, json_line,
                   nread, rc, exc, out>>

\* _run up to the first read of stdout: manage_subprocess starts the child
Spawn(r) ==
    /\ pc[r] = "spawn"
    /\ proc' = [proc EXCEPT ![r] = "alive"]
    /\ pc' = [pc EXCEPT ![r] = "stream"]
    /\ UNCHANGED <<call, stderr_chunks,
                   scope, engine, resume_token, owner, resume_lock,
                   session_lock, session_lock_acquired, found_session,
                   did_emit_completed, state, final_answer, turn_index,
                   note_seq, json_line, nread, rc, exc, out>>

\* ------------------------------------------------- the stream loop body
\* state = ClaudeStreamState() at the head of _run: every run allocates its
\* own translator state; Slot(r) is the state object run r passes to the
\* translator
SharedSlot(r) == 1

Slot(r) == r

\* What processing one line does to the locals of _run: the events yielded,
\* and whether the loop goes on ("stream"), waits for the session lock
\* ("acquire") or raises ("raise").
Locals(r) ==
    [next |-> "stream", exc |-> "", events |-> <<>>,
     state |-> state[Slot(r)],
     final_answer |-> final_answer[r], turn_index |-> turn_index[r],
     note_seq |-> note_seq[r], did |-> did_emit_completed[r],
     found |-> found_session[r], session_lock |-> session_lock[r]]

\* expected_session is not None and session != expected_session
NoSessionMismatch(expected, session) == FALSE

SessionMismatch(expected, session) == expected # None /\ session # expected

\* if expected_session is None: the session lock is taken
NeverNeedsSessionLock(expected) == FALSE

NeedsSessionLock(expected) == expected = None

\* codex only handles a StartedEvent while found_session is None; claude
\* handles every StartedEvent
FirstSessionOnly(e) == e = "codex"

\* isinstance(out_evt, StartedEvent) branch of both runners
SessionStep(r, loc, evt) ==
    IF FirstSessionOnly(engine[r]) /\ found_session[r] # None THEN loc
    ELSE IF evt.resume.engine # engine[r]
      THEN [loc EXCEPT !.next = "raise", !.exc = "wrong engine"]
    ELSE IF SessionMismatch(resume_token[r], evt.resume)
      THEN [loc EXCEPT !.next = "raise", !.exc = "different session"]
    ELSE IF NeedsSessionLock(resume_token[r])
      THEN [loc EXCEPT !.next = "acquire",
                       !.session_lock = LockFor(evt.resume)]
    ELSE [loc EXCEPT !.found = evt.resume, !.events = <<evt>>]

IsSessionRecord(evs) == Len(evs) > 0 /\ evs[1].type = "started"

HasCompleted(evs) == \E i \in 1..Len(evs) : evs[i].type = "completed"

\* ClaudeRunner._run, one decoded line
ClaudeStep(r, l) ==
    LET t == translate_claude_event(l, state[Slot(r)])
        loc == [Locals(r) EXCEPT !.state = t.state]
    IN  IF IsSessionRecord(t.events) THEN SessionStep(r, loc, t.events[1])
        ELSE [loc EXCEPT !.events = t.events, !.did = HasCompleted(t.events)]

\* fatal = fatal_flag is True or fatal_flag is None
AlwaysFatal(fatal_flag) == TRUE

OnlyExplicitFatal(fatal_flag) == fatal_flag = "true"

IsFatal(fatal_flag) == fatal_flag \in {"true", "none"}

\* str(evt.get("message") or "codex error"); "" is a record without message
ErrorMessage(l) == IF l.message # "" THEN l.message ELSE "codex error"

\* str(error.get("message") or "codex turn failed"); the error of the record
\* is the object {"message": "boom"} ("dict"), absent ("none") or a string
TurnFailedMessage(l) ==
    IF l.error = "dict" THEN "boom" ELSE "codex turn failed"

\* _completed_event(resume=found_session or resume_token, ok=...,
\* answer=final_answer or "", error=...)
CodexCompletedNoAnswer(r, ok, error) ==
    CompletedEvent(ok, "", ResumeForCompleted(r), error)

CodexCompleted(r, ok, error) ==
    CompletedEvent(ok, final_answer[r], ResumeForCompleted(r), error)

\* CodexRunner._run, one decoded line
CodexStep(r, l) ==
    LET loc == Locals(r)
        note(message, key) ==
            [loc EXCEPT !.note_seq = @ + 1,
                !.events = <<NoteCompleted("codex", note_seq[r] + 1,
                                           message, key)>>]
    IN  CASE l.type = "error" ->
               IF IsFatal(l.fatal)
               THEN [loc EXCEPT !.did = TRUE,
                        !.events = <<CodexCompleted(r, FALSE, ErrorMessage(l))>>]
               ELSE note(ErrorMessage(l), "code")
          [] l.type = "turn.failed" ->
               IF l.error = "str"
               THEN [loc EXCEPT !.next = "raise", !.exc = "AttributeError"]
               ELSE [loc EXCEPT !.did = TRUE,
                        !.events = <<CodexCompleted(r, FALSE,
                                                    TurnFailedMessage(l))>>]
          [] l.type = "turn.rate_limited" -> note("rate limited", "")
          [] l.type = "turn.started" ->
               [loc EXCEPT !.turn_index = @ + 1,
                   !.events = <<ActionEvent(<<"turn", turn_index[r]>>, "turn",
                                            "started", "None", "")>>]
          [] l.type = "turn.completed" ->
               [loc EXCEPT !.did = TRUE,
                   !.events = <<CodexCompleted(r, TRUE, "")>>]
          [] OTHER ->
               LET evs == translate_codex_event(l)
                   fa == IF l.type = "item.completed"
                            /\ l.item_type = "agent_message"
                         THEN l.text ELSE final_answer[r]
                   loc2 == [loc EXCEPT !.final_answer = fa]
               IN  IF IsSessionRecord(evs) THEN SessionStep(r, loc2, evs[1])
                   ELSE [loc2 EXCEPT !.events = evs]

\* if did_emit_completed: continue
NeverSkipsLine(did) == FALSE

SkipsLine(did) == did

\* if json_line.data is None
NeverUndecodable(l) == FALSE

IsUndecodable(l) == l.type = "bad"

InvalidJson(e) ==
    IF e = "claude" THEN "invalid JSON from claude; ignoring line"
    ELSE "invalid JSON from codex; ignoring line"

\* the body of `async for json_line in iter_jsonl(...)` for one line
LineStep(r, l) ==
    IF SkipsLine(did_emit_completed[r]) THEN Locals(r)
    ELSE IF IsUndecodable(l)
      THEN [Locals(r) EXCEPT !.note_seq = @ + 1,
               !.events = <<NoteCompleted(engine[r], note_seq[r] + 1,
                                          InvalidJson(engine[r]), "line")>>]
    ELSE IF engine[r] = "claude" THEN ClaudeStep(r, l)
    ELSE CodexStep(r, l)

\* `yield out_evt`: the caller receives the events in the order of the yields
YieldNewestFirst(delivered, events) == events \o delivered

Yield(delivered, events) == delivered \o events

\* the lines the runs of this scope can read
ScopeLines(e) ==
    IF scope.pair
    THEN (IF e = "claude" THEN ClaudePairLines ELSE CodexPairLines)
    ELSE LinesOf(e, scope.rich)

ProcAfterExit(r) ==
    [proc EXCEPT ![r] = IF @ = "alive" THEN "terminated" ELSE @]

ReadLine(r, l) ==
    /\ pc[r] = "stream"
    /\ nread[r] < scope.maxlines
    /\ l \in ScopeLines(engine[r])
    /\ LET s == LineStep(r, l) IN
        /\ nread' = [nread EXCEPT ![r] = @ + 1]
        /\ json_line' = [json_line EXCEPT ![r] = l]
        /\ state' = [state EXCEPT ![Slot(r)] = s.state]
        /\ final_answer' = [final_answer EXCEPT ![r] = s.final_answer]
        /\ turn_index' = [turn_index EXCEPT ![r] = s.turn_index]
        /\ note_seq' = [note_seq EXCEPT ![r] = s.note_seq]
        /\ did_emit_completed' = [did_emit_completed EXCEPT ![r] = s.did]
        /\ found_session' = [found_session EXCEPT ![r] = s.found]
        /\ session_lock' = [session_lock EXCEPT ![r] = s.session_lock]
        /\ out' = [out EXCEPT ![r] = Yield(@, s.events)]
        /\ IF s.next = "raise"
           THEN /\ Unwind(r, "raised", s.exc)
                /\ proc' = ProcAfterExit(r)
           ELSE /\ pc' = [pc EXCEPT ![r] = s.next]
                /\ UNCHANGED <<owner, resume_lock, proc, exc>>
    /\ UNCHANGED <<call, stderr_chunks,
                   scope, engine, resume_token, session_lock_acquired, rc>>

\* the session of the StartedEvent being handled
PendingSession(r) ==
    IF engine[r] = "claude"
    THEN ResumeToken("claude", json_line[r].session_id)
    ELSE ResumeToken("codex", json_line[r].thread_id)

\* await session_lock.acquire(); session_lock_acquired = True;
\* found_session = session; yield out_evt. Acquiring a lock the task already
\* holds raises RuntimeError (anyio.Lock.acquire).
AcquireSession(r) ==
    /\ pc[r] = "acquire"
    /\ owner[session_lock[r]] = r \/ LockFree(session_lock[r])
    /\ IF owner[session_lock[r]] = r
       THEN /\ Unwind(r, "raised", "already held")
            /\ proc' = ProcAfterExit(r)
            /\ UNCHANGED <<session_lock_acquired, found_session, out>>
       ELSE /\ owner' = [owner EXCEPT ![session_lock[r]] = r]
            /\ session_lock_acquired' =
                  [session_lock_acquired EXCEPT ![r] = TRUE]
            /\ found_session' = [found_session EXCEPT ![r] = PendingSession(r)]
            /\ out' = [out EXCEPT ![r] =
                          Yield(@, <<StartedEvent(PendingSession(r))>>)]
            /\ pc' = [pc EXCEPT ![r] = "stream"]
            /\ UNCHANGED <<resume_lock, proc, exc>>
    /\ UNCHANGED <<call, stderr_chunks,
                   scope, engine, resume_token, session_lock,
                   did_emit_completed, state, final_answer, turn_index,
                   note_seq, json_line, nread, rc>>

\* iter_jsonl is exhausted: the child closed its stdout
Eof(r) ==
    /\ pc[r] = "stream"
    /\ pc' = [pc EXCEPT ![r] = "wait"]
    /\ UNCHANGED <<call, stderr_chunks,
                   scope, engine, resume_token, proc, owner, resume_lock,
                   session_lock, session_lock_acquired, found_session,
                   did_emit_completed, state, final_answer, turn_index,
                   note_seq, json_line, nread, rc, exc, out>>

ExitCodes == {0, 1, 2}

\* f"claude failed (rc={rc})." and f"codex exec failed (rc={rc})."
RcMessage(e, code) ==
    (IF e = "claude" THEN "claude failed (rc=" ELSE "codex exec failed (rc=")
    \o ToString(code) \o ")."

\* if rc != 0
ExitNeverFailed(code) == FALSE

ExitFailed(code) == code # 0

NoSessionMessage(e) ==
    IF e = "claude" THEN "claude finished but no session_id was captured"
    ELSE "codex exec finished but no session_id/thread_id was captured"

NoResultMessage == "claude finished without a result event"

\* the events _run yields after proc.wait() returned `code`
Synthesized(r, code) ==
    IF did_emit_completed[r] THEN <<>>
    ELSE IF ExitFailed(code) THEN
        <<NoteCompleted(engine[r], note_seq[r] + 1, RcMessage(engine[r], code),
                        "stderr_tail"),
          CompletedEvent(FALSE,
                         IF engine[r] = "claude" THEN "" ELSE final_answer[r],
                         ResumeForCompleted(r), RcMessage(engine[r], code))>>
    ELSE IF found_session[r] = None THEN
        <<CompletedEvent(FALSE,
                         IF engine[r] = "claude" THEN "" ELSE final_answer[r],
                         resume_token[r],
                         NoSessionMessage(engine[r]))>>
    ELSE IF engine[r] = "claude" THEN
        <<CompletedEvent(FALSE, state[Slot(r)].last_assistant_text,
                         found_session[r],
                         NoResultMessage)>>
    ELSE <<CompletedEvent(TRUE, final_answer[r], found_session[r], "")>>

\* `rc = await proc.wait()` stands after the `async for` over iter_jsonl: it
\* is reached when the child's output is exhausted
MaybeExhausted(r) == pc[r] \in {"stream", "wait"}

OutputExhausted(r) == pc[r] = "wait"

\* rc = await proc.wait(), then the rest of _run to its return
Wait(r, code) ==
    /\ OutputExhausted(r)
    /\ code \in ExitCodes
    /\ rc' = [rc EXCEPT ![r] = code]
    /\ proc' = [proc EXCEPT ![r] = "exited"]
    /\ out' = [out EXCEPT ![r] = Yield(@, Synthesized(r, code))]
    /\ note_seq' = [note_seq EXCEPT ![r] =
                       IF ~did_emit_completed[r] /\ ExitFailed(code)
                       THEN @ + 1 ELSE @]
    /\ Unwind(r, "done", "")
    /\ UNCHANGED <<call, stderr_chunks,
                   scope, engine, resume_token, session_lock,
                   session_lock_acquired, found_session, did_emit_completed,
                   state, final_answer, turn_index, json_line, nread>>

\* The consumer stops consuming (closes the stream, raises or is cancelled)
\* while the run is suspended: the run unwinds through its finally blocks.
Close(r) ==
    /\ pc[r] \in {"lock_wait", "spawn", "stream", "acquire", "wait"}
    /\ Unwind(r, "closed", "closed")
    /\ proc' = ProcAfterExit(r)
    /\ UNCHANGED <<call, stderr_chunks,
                   scope, engine, resume_token, session_lock,
                   session_lock_acquired, found_session, did_emit_completed,
                   state, final_answer, turn_index, note_seq, json_line,
                   nread, rc, out>>

Next ==
    \E r \in Runs :
        \/ \E tok \in Tokens \cup {None} : Start(r, tok)
        \/ AcquireResumeLock(r)
        \/ Spawn(r)
        \/ \E l \in ClaudeLines \cup CodexLines : ReadLine(r, l)
        \/ AcquireSession(r)
        \/ Eof(r)
        \/ \E code \in ExitCodes : Wait(r, code)
        \/ Close(r)

Spec == Init /\ [][Next]_vars

SpecStream == InitStream /\ [][Next]_vars

TypeOK ==
    /\ \A r \in Runs : pc[r] \in {"idle", "lock_wait", "spawn", "stream",
                                  "acquire", "wait", "done", "raised", "closed"}
    /\ \A l \in Locks : owner[l] \in 0..NumRuns
    /\ \A r \in Runs : session_lock[r] \in Locks /\ resume_lock[r] \in Locks

\* ---------------------------------------------------------- properties
Indexes(r, t) == {i \in 1..Len(out[r]) : out[r][i].type = t}

\* inside the run implementation _run
InRun(r) == pc[r] \in {"spawn", "stream", "acquire", "wait"}

Terminal(r) == pc[r] \in {"done", "raised", "closed"}

HeldBy(r) == {l \in Locks : owner[l] = r}

\* the identities a run was started with or has delivered a StartedEvent for
Identities(r) ==
    {resume_token[r]} \cup {out[r][i].resume : i \in Indexes(r, "started")}

\* C1: every run that ends (returns or raises) other than by the resume
\* mismatch abort has delivered exactly one CompletedEvent, and that event is
\* the last one delivered.
C1_ExactlyOneCompletedLast ==
    \A r \in Runs :
        (pc[r] \in {"done", "raised"}
         /\ exc[r] \notin {"different session", "wrong engine"})
        => (Indexes(r, "completed") = {Len(out[r])} /\ Len(out[r]) > 0)

\* C2: two runs started with the same resume token are never both inside the
\* run implementation.
C2_SameTokenOneInFlight ==
    \A r, q \in Runs :
        (r # q /\ resume_token[r] # None /\ resume_token[r] = resume_token[q])
        => ~(InRun(r) /\ InRun(q))

\* a run inside _run while another run with the same token waits for the lock
C2_Witness ==
    \E r, q \in Runs :
        /\ r # q /\ resume_token[r] # None /\ resume_token[r] = resume_token[q]
        /\ pc[r] = "stream" /\ proc[r] = "alive"
        /\ pc[q] = "lock_wait"

\* C3: a run started without a resume token that has delivered a StartedEvent
\* for S holds the lock of S while it runs, no run resuming S has a child
\* process meanwhile, and once the first run has finished it no longer holds
\* the lock of S, so the resuming run can proceed.
C3_StartedHoldsLockUntilFinished ==
    \A r \in Runs : \A i \in Indexes(r, "started") :
        resume_token[r] = None =>
            /\ InRun(r) =>
                 /\ owner[LockFor(out[r][i].resume)] = r
                 /\ \A q \in Runs :
                       (q # r /\ resume_token[q] = out[r][i].resume)
                       => proc[q] # "alive"
            /\ Terminal(r) => owner[LockFor(out[r][i].resume)] # r

\* C4: a run started without a resume token holds no session lock and waits
\* for none before its backend has revealed a session identity.
C4_NewRunsNotSerialized ==
    \A r \in Runs :
        (resume_token[r] = None /\ session_lock[r] = None)
        => (HeldBy(r) = {} /\ pc[r] \notin {"lock_wait", "acquire"})

\* two runs without a resume token, both with a live child, both streaming
C4_Witness ==
    \E r, q \in Runs :
        /\ r # q
        /\ resume_token[r] = None /\ resume_token[q] = None
        /\ pc[r] = "stream" /\ pc[q] = "stream"
        /\ proc[r] = "alive" /\ proc[q] = "alive"
        /\ nread[r] > 0 /\ nread[q] > 0
        /\ found_session[r] = None /\ found_session[q] = None

\* the identity a run was started with or that its backend has revealed to
\* it, also while it still waits for the lock of that identity
RevealedIdentities(r) ==
    ({resume_token[r], found_session[r]}
     \cup (IF pc[r] = "acquire" THEN {PendingSession(r)} ELSE {}))
    \ {None}

\* C5 as stated: for every identity S at most one run whose identity is S,
\* supplied by the caller or revealed mid-stream by its backend, has a live
\* child process.
C5_OneLiveRunPerRevealedIdentity ==
    \A S \in Tokens :
        Cardinality({r \in Runs : proc[r] = "alive"
                                  /\ S \in RevealedIdentities(r)}) <= 1

\* C5 amended: for every identity S at most one run that has resolved S
\* under the lock (found_session, else the resume token) has a live child
\* process.
C5_OneLiveRunPerIdentity ==
    \A S \in Tokens :
        Cardinality({r \in Runs : proc[r] = "alive"
                                  /\ ResumeForCompleted(r) = S}) <= 1

\* a run that discovered S mid-stream is live and holds the lock of S while
\* another run whose backend revealed S waits for it with a live child
C5_Witness ==
    \E r, q \in Runs :
        /\ r # q
        /\ resume_token[r] = None /\ found_session[r] # None
        /\ proc[r] = "alive" /\ owner[LockFor(found_session[r])] = r
        /\ pc[q] = "acquire" /\ proc[q] = "alive"
        /\ PendingSession(q) = found_session[r]

\* C6: a run started with resume token T holds the lock of T from before its
\* child is spawned until it has left the run implementation; its child is
\* never alive while the lock is not held by the run.
C6_ResumeLockHeldWholeRun ==
    \A r \in Runs :
        (resume_token[r] # None /\ (InRun(r) \/ proc[r] = "alive"))
        => owner[LockFor(resume_token[r])] = r

\* a resumed run with a live child
C6_Witness ==
    \E r \in Runs :
        resume_token[r] # None /\ proc[r] = "alive" /\ pc[r] = "wait"

\* the token whose lock a waiting run waits for
WantedToken(r) ==
    IF pc[r] = "lock_wait" THEN resume_token[r] ELSE PendingSession(r)

WantedLock(r) ==
    IF pc[r] = "lock_wait" THEN LockFor(resume_token[r]) ELSE session_lock[r]

C8_LocksReleasedOnEveryExit ==
    \A r \in Runs :
        Terminal(r) => (HeldBy(r) = {} /\ exc[r] # "release")

\* C9: after the consumer stopped consuming early, the child is not alive and
\* the run holds no session lock.
C9_EarlyStopCleansUp ==
    \A r \in Runs :
        (pc[r] = "closed" \/ exc[r] = "release")
        => (proc[r] # "alive" /\ HeldBy(r) = {})

\* the session record just read reveals an identity other than the resume token
MismatchLine(r) ==
    /\ resume_token[r] # None
    /\ json_line[r].type \in {"system.init", "thread.started"}
    /\ PendingSession(r).value # ""
    /\ PendingSession(r) # resume_token[r]

C11_MismatchAlwaysRaises ==
    \A r \in Runs :
        (MismatchLine(r) /\ ~did_emit_completed[r])
        => (pc[r] = "raised" /\ exc[r] = "different session")

\* C12: every run delivers at most one StartedEvent.
C12_AtMostOneStarted ==
    \A r \in Runs : Cardinality(Indexes(r, "started")) <= 1

\* C13: the resume of every CompletedEvent a run delivers is the identity the
\* run captured from its StartedEvent if it captured one, otherwise the
\* caller's resume token, otherwise absent.
C13_CompletedResumeMostSpecific ==
    \A r \in Runs : \A i \in Indexes(r, "completed") :
        out[r][i].resume = ResumeForCompleted(r)

\* the delivered notes whose detail has the key `key`
Notes(r, key) ==
    {i \in Indexes(r, "action") :
        out[r][i].kind = "warning" /\ out[r][i].detail = key}

\* the child has exited with a non-zero code and every line the run read
\* from it failed to decode
FailedWithoutParseableOutput(r) ==
    /\ pc[r] = "done"
    /\ rc[r] # 0
    /\ Cardinality(Notes(r, "line")) = nread[r]

\* C14: a run whose child exits non-zero without any parseable output line
\* has delivered exactly one CompletedEvent, the last event, with ok=false
\* and the error text of that exit code (and of no other exit code), and a
\* note carrying the stderr tail.
C14_NonZeroExitWithoutOutput ==
    \A r \in Runs :
        FailedWithoutParseableOutput(r) =>
            /\ Indexes(r, "completed") = {Len(out[r])}
            /\ out[r][Len(out[r])].ok = FALSE
            /\ out[r][Len(out[r])].error = RcMessage(engine[r], rc[r])
            /\ \A c \in ExitCodes \ {rc[r]} :
                  out[r][Len(out[r])].error # RcMessage(engine[r], c)
            /\ Notes(r, "stderr_tail") # {}

\* a run that read an undecodable line and whose child then exited with 2
C14_Witness ==
    \E r \in Runs :
        /\ FailedWithoutParseableOutput(r)
        /\ nread[r] > 0 /\ rc[r] = 2
        /\ Len(out[r]) = nread[r] + 2

\* C15: every run whose child has exited with a non-zero code has ended with
\* a CompletedEvent that has ok=false. (The claim also wants the stderr tail
\* inside that event's error string; the formula states the part that does
\* not depend on what the child wrote to stderr.)
C15_NonZeroExitEndsFailing ==
    \A r \in Runs :
        (pc[r] = "done" /\ rc[r] # 0) =>
            /\ Len(out[r]) > 0
            /\ out[r][Len(out[r])].type = "completed"
            /\ out[r][Len(out[r])].ok = FALSE

\* No record the run handled carried a session identity: no session record
\* was captured and no result record of claude named a session (the resume of
\* the synthesized "no session" event is the caller's token).
NeverRevealed(r) ==
    /\ found_session[r] = None
    /\ engine[r] = "claude" =>
          \A i \in Indexes(r, "completed") :
              \/ out[r][i].resume = None
              \/ out[r][i].error = NoSessionMessage("claude")

\* C16: a run whose child exited 0 and whose backend never revealed a session
\* identity has ended with a CompletedEvent with ok=false and the "no
\* session" error text, which is not the text used for a revealed session
\* without a terminal record.
C16_NoSessionFails ==
    \A r \in Runs :
        (pc[r] = "done" /\ rc[r] = 0 /\ NeverRevealed(r)) =>
            /\ Len(out[r]) > 0
            /\ out[r][Len(out[r])].type = "completed"
            /\ out[r][Len(out[r])].ok = FALSE
            /\ out[r][Len(out[r])].error = NoSessionMessage(engine[r])
            /\ NoSessionMessage(engine[r]) # NoResultMessage

\* the last free-text fragment the run has seen, "" if none
LastFreeText(r) ==
    IF engine[r] = "claude" THEN state[r].last_assistant_text
    ELSE final_answer[r]

\* C17: a run whose child exited 0 after a session identity was captured but
\* without any terminal record has ended with a CompletedEvent with ok=false,
\* a specific error text that is not the "no session" text, and the last
\* free-text fragment as its answer; for both runners.
C17_NoResultFails ==
    \A r \in Runs :
        (pc[r] = "done" /\ rc[r] = 0 /\ found_session[r] # None
         /\ ~did_emit_completed[r]) =>
            /\ Indexes(r, "completed") = {Len(out[r])}
            /\ out[r][Len(out[r])].ok = FALSE
            /\ out[r][Len(out[r])].error \notin {"", NoSessionMessage(engine[r])}
            /\ engine[r] = "claude" => out[r][Len(out[r])].error = NoResultMessage
            /\ out[r][Len(out[r])].answer = LastFreeText(r)

\* the run reads an undecodable line before it has delivered a CompletedEvent
ReadsBadLine(r) ==
    /\ nread'[r] = nread[r] + 1
    /\ json_line'[r].type = "bad"
    /\ ~did_emit_completed[r]

\* C18: reading a line that fails to decode, before the CompletedEvent,
\* delivers exactly one completed ActionEvent of kind warning, level warning,
\* ok=false, and leaves the run streaming: no exception, no CompletedEvent,
\* the child still alive.
C18_BadLineStep ==
    \A r \in Runs :
        ReadsBadLine(r) =>
            /\ Len(out'[r]) = Len(out[r]) + 1
            /\ SubSeq(out'[r], 1, Len(out[r])) = out[r]
            /\ LET ev == out'[r][Len(out'[r])] IN
                /\ ev.type = "action" /\ ev.phase = "completed"
                /\ ev.kind = "warning" /\ ev.level = "warning"
                /\ ev.ok = "False"
            /\ pc'[r] = "stream" /\ exc'[r] = "" /\ proc'[r] = "alive"
            /\ ~did_emit_completed'[r]

C18_BadLineWarnsAndContinues == [][C18_BadLineStep]_vars

\* after an undecodable line the run has translated and delivered the record
\* of a following line
C18_Witness ==
    \E r \in Runs : \E i \in Notes(r, "line") :
        /\ i < Len(out[r])
        /\ out[r][Len(out[r])].type # "action"
        /\ nread[r] = 2

\* records of non-fatal upstream conditions: a rate-limit record, an error
\* record flagged non-fatal, a per-item error record, a result record with
\* permission denials
IsDenialRecord(l) == l.type = "result" /\ l.denials > 0

IsWarningRecord(l) ==
    \/ l.type = "turn.rate_limited"
    \/ l.type = "error" /\ l.fatal = "false"
    \/ l.type = "item.completed" /\ l.item_type = "error"
    \/ IsDenialRecord(l)

IsWarning(ev) ==
    /\ ev.type = "action" /\ ev.phase = "completed"
    /\ ev.kind = "warning" /\ ev.ok = "False"

\* the run reads such a record before it has delivered a CompletedEvent
ReadsWarningRecord(r) ==
    /\ nread'[r] = nread[r] + 1
    /\ ~did_emit_completed[r]
    /\ IsWarningRecord(json_line'[r])

\* C19 as stated: each of these records delivers a completed ActionEvent of
\* kind warning with ok=false and does not end the stream.
C19_WarningStep ==
    \A r \in Runs :
        ReadsWarningRecord(r) =>
            /\ Len(out'[r]) > Len(out[r])
            /\ IsWarning(out'[r][Len(out[r]) + 1])
            /\ pc'[r] = "stream" /\ ~did_emit_completed'[r]

C19_AmendedStep ==
    \A r \in Runs :
        ReadsWarningRecord(r) =>
            /\ Len(out'[r]) > Len(out[r])
            /\ SubSeq(out'[r], 1, Len(out[r])) = out[r]
            /\ IsWarning(out'[r][Len(out[r]) + 1])
            /\ IF IsDenialRecord(json_line'[r])
               THEN /\ Len(out'[r]) = Len(out[r]) + 2
                    /\ out'[r][Len(out'[r])].type = "completed"
                    /\ did_emit_completed'[r]
               ELSE /\ Len(out'[r]) = Len(out[r]) + 1
                    /\ pc'[r] = "stream" /\ exc'[r] = ""
                    /\ ~did_emit_completed'[r]

AbortedByRecord(r) ==
    /\ nread'[r] = nread[r] + 1
    /\ ~did_emit_completed[r] /\ did_emit_completed'[r]
    /\ out'[r][Len(out'[r])].type = "completed"
    /\ out'[r][Len(out'[r])].ok = FALSE

\* the run reads an error record whose fatal marker is one of `flags`,
\* before it has delivered a CompletedEvent
ReadsErrorRecord(r, flags) ==
    /\ nread'[r] = nread[r] + 1
    /\ ~did_emit_completed[r]
    /\ json_line'[r].type = "error" /\ json_line'[r].fatal \in flags

Continues(r) ==
    /\ pc'[r] = "stream" /\ ~did_emit_completed'[r]
    /\ \A i \in 1..Len(out'[r]) : out'[r][i].type # "completed"

\* failing terminal records: a failed turn, a result record with is_error
IsFailingTerminal(l) ==
    l.type = "turn.failed" \/ (l.type = "result" /\ l.is_error)

\* C20 as stated: a record ends the stream with a failing CompletedEvent only
\* if it is a failing terminal record or an error record explicitly marked
\* fatal; an error record without a fatal marker leaves the run streaming.
\* (The non-zero exit acts after the stream: C14.)
C20_Step ==
    \A r \in Runs :
        /\ AbortedByRecord(r) =>
              \/ IsFailingTerminal(json_line'[r])
              \/ json_line'[r].type = "error" /\ json_line'[r].fatal = "true"
        /\ ReadsErrorRecord(r, {"none"}) => Continues(r)

C20_OnlyExplicitFatalAborts == [][C20_Step]_vars

\* C20 amended: a record ends the stream with a failing CompletedEvent only
\* if it is a failing terminal record or an error record that is not flagged
\* non-fatal; an error record marked fatal or carrying no fatal marker ends
\* it, an error record flagged fatal=false leaves the run streaming.
C20_AmendedStep ==
    \A r \in Runs :
        /\ AbortedByRecord(r) =>
              \/ IsFailingTerminal(json_line'[r])
              \/ json_line'[r].type = "error" /\ json_line'[r].fatal # "false"
        /\ ReadsErrorRecord(r, {"true", "none"}) => AbortedByRecord(r)
        /\ ReadsErrorRecord(r, {"false"}) => Continues(r)

C20_FatalUnlessFlaggedNonFatal == [][C20_AmendedStep]_vars

\* an error record without a fatal marker, read after a session record, has
\* ended the stream with a failing CompletedEvent
C20_Witness ==
    \E r \in Runs :
        /\ json_line[r].type = "error" /\ json_line[r].fatal = "none"
        /\ nread[r] = 2 /\ Len(out[r]) = 2
        /\ out[r][1].type = "started"
        /\ out[r][2].type = "completed" /\ out[r][2].ok = FALSE
        /\ did_emit_completed[r]

\* a fatal error record, or a failed-turn record whose error is an object or
\* absent
IsFatalRecord(l) ==
    \/ l.type = "error" /\ l.fatal # "false"
    \/ l.type = "turn.failed" /\ l.error # "str"

\* the message such a record carries, else the runner's default text
RecordMessage(l) ==
    IF l.type = "error"
    THEN (IF l.message # "" THEN l.message ELSE "codex error")
    ELSE (IF l.error = "dict" THEN "boom" ELSE "codex turn failed")

ReadsFatalRecord(r) ==
    /\ nread'[r] = nread[r] + 1
    /\ ~did_emit_completed[r]
    /\ engine[r] = "codex"
    /\ IsFatalRecord(json_line'[r])

\* C21: reading a fatal error record or a failed-turn record delivers at once
\* one CompletedEvent with ok=false, the record's message as error and the
\* last agent message seen so far as answer; the run stays in its read loop,
\* and from then on reads lines and awaits the exit code without delivering
\* any further event.
C21_Step ==
    \A r \in Runs :
        /\ ReadsFatalRecord(r) =>
              /\ Len(out'[r]) = Len(out[r]) + 1
              /\ SubSeq(out'[r], 1, Len(out[r])) = out[r]
              /\ LET ev == out'[r][Len(out'[r])] IN
                  /\ ev.type = "completed" /\ ev.ok = FALSE
                  /\ ev.error = RecordMessage(json_line'[r])
                  /\ ev.answer = final_answer[r]
              /\ pc'[r] = "stream" /\ exc'[r] = "" /\ proc'[r] = "alive"
        /\ (did_emit_completed[r] /\ engine[r] = "codex") =>
              /\ out'[r] = out[r]
              /\ pc'[r] # "raised"

C22_FailuresAreFailingEvents ==
    \A r \in Runs :
        /\ \A i \in Indexes(r, "completed") :
              ~out[r][i].ok => out[r][i].error # ""
        /\ pc[r] = "raised" => exc[r] \in {"different session", "wrong engine"}

\* C23: no event of any type is delivered after a CompletedEvent: at every
\* moment a CompletedEvent a run has delivered is the last event it has
\* delivered.
C23_NothingAfterCompleted ==
    \A r \in Runs : Indexes(r, "completed") \subseteq {Len(out[r])}

\* a terminal record read first was followed by two more lines, the last of
\* them a second terminal record; the run has ended and delivered only the
\* first CompletedEvent
C23_Witness ==
    \E r \in Runs :
        /\ pc[r] = "done" /\ nread[r] = 3 /\ did_emit_completed[r]
        /\ json_line[r].type \in {"result", "turn.completed"}
        /\ Len(out[r]) = 1 /\ out[r][1].type = "completed"

\* the delivered ActionEvents of the action with backend id x
ActionIndexes(r, x) ==
    {i \in Indexes(r, "action") : out[r][i].id = <<x>>}

LastIndex(S) == CHOOSE i \in S : \A j \in S : j <= i

\* the tool call with id x has been delivered and not yet been completed
CallPending(r, x) ==
    /\ ActionIndexes(r, x) # {}
    /\ out[r][LastIndex(ActionIndexes(r, x))].phase = "started"

ReadsToolResult(r) ==
    /\ nread'[r] = nread[r] + 1
    /\ ~did_emit_completed[r]
    /\ json_line'[r].type = "user.tool_result"

\* C24: a result record with correlation id X read while the tool call X is
\* pending (its started ActionEvent is the latest event of action X)
\* delivers exactly one completed ActionEvent with the same action id, kind
\* and title as that started event and with ok = not is_error.
C24_Step ==
    \A r \in Runs :
        (ReadsToolResult(r) /\ CallPending(r, json_line'[r].id)) =>
            LET begun == out[r][LastIndex(ActionIndexes(r, json_line'[r].id))]
                ev == out'[r][Len(out'[r])]
            IN  /\ Len(out'[r]) = Len(out[r]) + 1
                /\ SubSeq(out'[r], 1, Len(out[r])) = out[r]
                /\ ev.type = "action" /\ ev.phase = "completed"
                /\ ev.id = begun.id /\ ev.kind = begun.kind
                /\ ev.title = begun.title
                /\ ev.ok = (IF json_line'[r].is_error THEN "False" ELSE "True")

C24_CallAndResultPaired == [][C24_Step]_vars

\* a file-changing tool call and its failing result have been delivered as a
\* started and a completed event of one action
C24_Witness ==
    \E r \in Runs :
        /\ Len(out[r]) = 2
        /\ out[r][1].type = "action" /\ out[r][1].phase = "started"
        /\ out[r][1].kind = "file_change"
        /\ out[r][2].type = "action" /\ out[r][2].phase = "completed"
        /\ out[r][2].id = out[r][1].id /\ out[r][2].kind = "file_change"
        /\ out[r][2].ok = "False"

\* C25: a result record whose correlation id X matches no pending call (no
\* call X was delivered, or the latest event of action X is already its
\* completion) delivers exactly one completed ActionEvent with action id X
\* and the synthetic action of kind tool.
C25_Step ==
    \A r \in Runs :
        (ReadsToolResult(r) /\ ~CallPending(r, json_line'[r].id)) =>
            LET ev == out'[r][Len(out'[r])]
            IN  /\ Len(out'[r]) = Len(out[r]) + 1
                /\ SubSeq(out'[r], 1, Len(out[r])) = out[r]
                /\ ev.type = "action" /\ ev.phase = "completed"
                /\ ev.id = <<json_line'[r].id>>
                /\ ev.kind = "tool" /\ ev.title = "tool result"
                /\ pc'[r] = "stream"

C25_UnmatchedResultSynthesized == [][C25_Step]_vars

\* a command call was completed by its result, and a second result with the
\* same id was delivered as a synthetic tool action
C25_Witness ==
    \E r \in Runs :
        /\ Len(out[r]) = 3
        /\ \A i \in 1..3 : out[r][i].type = "action" /\ out[r][i].id = <<"x">>
        /\ out[r][1].phase = "started" /\ out[r][1].kind = "command"
        /\ out[r][2].phase = "completed" /\ out[r][2].kind = "command"
        /\ out[r][3].phase = "completed" /\ out[r][3].kind = "tool"

\* a record carrying a free-text fragment: an assistant text block of claude,
\* a completed agent message of codex
IsFreeText(l) ==
    \/ l.type = "assistant.text"
    \/ l.type = "item.completed" /\ l.item_type = "agent_message"

\* a terminal record that reports success and supplies no answer text
IsBareSuccess(l) ==
    \/ l.type = "turn.completed"
    \/ l.type = "result" /\ ~l.is_error /\ l.result = ""

Handles(r) == nread'[r] = nread[r] + 1 /\ ~did_emit_completed[r]

\* C26: the run remembers the text of the most recent free-text record it
\* handled (every such record replaces it, nothing else changes it), and a
\* terminal record that reports success without answer text delivers a
\* CompletedEvent with ok=true whose answer is that text, "" if there was
\* none.
C26_Step ==
    \A r \in Runs :
        /\ IF Handles(r) /\ IsFreeText(json_line'[r])
           THEN LastFreeText(r)' = json_line'[r].text
           ELSE LastFreeText(r)' = LastFreeText(r)
        /\ (Handles(r) /\ IsBareSuccess(json_line'[r])) =>
              /\ Len(out'[r]) > Len(out[r])
              /\ out'[r][Len(out'[r])].type = "completed"
              /\ out'[r][Len(out'[r])].ok = TRUE
              /\ out'[r][Len(out'[r])].answer = LastFreeText(r)

C26_AnswerFallsBackToLastText == [][C26_Step]_vars

\* the third line read is a success record without answer text; the last
\* free-text record before it carried t2, which is the answer delivered
C26_Witness ==
    \E r \in Runs :
        /\ nread[r] = 3 /\ IsBareSuccess(json_line[r])
        /\ LastFreeText(r) = "t2"
        /\ Len(out[r]) = 1
        /\ out[r][1].type = "completed" /\ out[r][1].answer = "t2"

\* a decoded record of an unknown type, or of a known type with a field of
\* an unexpected shape (the error of a failed-turn record is a string)
IsUnexpectedRecord(l) ==
    \/ l.type = "unknown"
    \/ l.type = "turn.failed" /\ l.error = "str"

\* C27: reading a record of an unknown type or of an unexpected shape
\* delivers no event and raises nothing; the run goes on reading.
C27_Step ==
    \A r \in Runs :
        (Handles(r) /\ IsUnexpectedRecord(json_line'[r])) =>
            /\ out'[r] = out[r]
            /\ pc'[r] = "stream" /\ exc'[r] = ""

C27_UnexpectedShapesIgnored == [][C27_Step]_vars

\* ------------------------------------------------- resume lines as text
\* A text is a sequence of one-character strings. Token values are drawn
\* from ValueChars, do not start or end with whitespace and have at most
\* MaxValueLen characters.
MaxValueLen == 3

ValueChars == {"a", "b", "-", " "}

\* the character U+0060 of a text, written as a name
Backtick == "backtick"

\* \s restricted to the characters of the model
Whitespace == {" "}

ResumeValues ==
    {v \in UNION {[1..n -> ValueChars] : n \in 1..MaxValueLen} :
        v[1] \notin Whitespace /\ v[Len(v)] \notin Whitespace}

\* no match: extract_resume returns None
NoToken == [engine |-> "", value |-> <<>>]

W_claude == <<"c", "l", "a", "u", "d", "e">>

W_codex == <<"c", "o", "d", "e", "x">>

W_resume == <<"r", "e", "s", "u", "m", "e">>

\* ClaudeRunner.format_resume: f"`claude --resume {token.value}`"
format_resume(token) ==
    <<Backtick>> \o W_claude \o <<" ", "-", "-">> \o W_resume \o <<" ">>
    \o token.value \o <<Backtick>>

\* the resume line of the codex runner: `codex resume <value>`
CodexResumeLine(value) ==
    <<Backtick>> \o W_codex \o <<" ">> \o W_resume \o <<" ">> \o value \o <<Backtick>>

\* Matching by sets of positions: from the positions P, the positions after
\* the literal w, after an optional w, after zero or more / one or more
\* characters of the class C.
At(text, P, w) ==
    {p + Len(w) : p \in {q \in P : /\ q + Len(w) - 1 <= Len(text)
                                   /\ SubSeq(text, q, q + Len(w) - 1) = w}}

Optional(text, P, w) == P \cup At(text, P, w)

Run(text, P, C) ==
    {q \in 1..(Len(text) + 1) :
        \E p \in P : p <= q /\ \A i \in p..(q - 1) : text[i] \in C}

Run1(text, P, C) ==
    {q \in 1..(Len(text) + 1) :
        \E p \in P : p < q /\ \A i \in p..(q - 1) : text[i] \in C}

\* [^`\s]
IsTokenChar(c) == c # Backtick /\ c \notin Whitespace

\* a pattern that takes the last word of the line, whatever precedes it
any_resume_re(text) ==
    {SubSeq(text, se[1], se[2] - 1) :
        se \in {xy \in (1..(Len(text) + 1)) \X (1..(Len(text) + 1)) :
                   /\ xy[1] < xy[2]
                   /\ xy[1] > 1 /\ text[xy[1] - 1] \in Whitespace
                   /\ \A i \in xy[1]..(xy[2] - 1) : IsTokenChar(text[i])
                   /\ Len(text) + 1
                        \in Run(text, Optional(text, {xy[2]}, <<Backtick>>),
                                Whitespace)}}

\* _RESUME_RE of claude.py on a text of one line:
\* ^\s*`?claude\s+(?:--resume|-r)\s+(?P<token>[^`\s]+)`?\s*$
\* the values of the group token over all matches
resume_re(text) ==
    LET p1 == Optional(text, Run(text, {1}, Whitespace), <<Backtick>>)
        p2 == Run1(text, At(text, p1, W_claude), Whitespace)
        p3 == At(text, p2, <<"-", "-">> \o W_resume)
              \cup At(text, p2, <<"-", "r">>)
        starts == Run1(text, p3, Whitespace)
        IsToken(s, e) ==
            /\ s < e
            /\ \A i \in s..(e - 1) : IsTokenChar(text[i])
            /\ Len(text) + 1
                 \in Run(text, Optional(text, {e}, <<Backtick>>), Whitespace)
    IN  {SubSeq(text, se[1], se[2] - 1) :
            se \in {xy \in (1..(Len(text) + 1)) \X (1..(Len(text) + 1)) :
                       xy[1] \in starts /\ IsToken(xy[1], xy[2])}}

\* ResumeTokenMixin.extract_resume: the token of the match of resume_re, None
\* without a match
extract_resume(text) ==
    LET m == resume_re(text)
    IN  IF m = {} THEN NoToken
        ELSE ResumeToken("claude",
                         CHOOSE v \in m : \A w \in m : Len(w) <= Len(v))

\* ------------------------------------- formatting and parsing resume lines
\* a token of ClaudeRunner is rendered, by the runner itself or as the resume
\* line of the codex runner, and the text is parsed by ClaudeRunner
InitResume ==
    /\ scope = [runs |-> {}, engine |-> "claude", rich |-> FALSE, pair |-> FALSE,
                maxlines |-> 0]
    /\ InitRuns
    /\ call \in {[at |-> "token", token |-> ResumeToken("claude", v),
                   own |-> TRUE, text |-> <<>>, result |-> NoToken] :
                     v \in ResumeValues}

FormatResume ==
    /\ call.at = "token"
    /\ call' = [call EXCEPT !.at = "text", !.text = format_resume(call.token)]
    /\ UNCHANGED runvars

FormatForeign ==
    /\ call.at = "token"
    /\ call' = [call EXCEPT !.at = "text", !.own = FALSE,
                            !.text = CodexResumeLine(call.token.value)]
    /\ UNCHANGED runvars

ExtractResume ==
    /\ call.at = "text"
    /\ call' = [call EXCEPT !.at = "parsed",
                            !.result = extract_resume(call.text)]
    /\ UNCHANGED runvars

NextResume == FormatResume \/ FormatForeign \/ ExtractResume

SpecResume == InitResume /\ [][NextResume]_vars

HasWhitespace(v) == \E i \in 1..Len(v) : v[i] \in Whitespace

\* C28: extract_resume(format_resume(T)) = T for every token T of the
\* runner's engine, also when the value of T contains whitespace.
C28_ResumeRoundTrip ==
    (call.at = "parsed" /\ call.own) => call.result = call.token

\* C29: extract_resume of the claude runner finds no token in a text that
\* holds only the resume line of another backend.
C29_ForeignResumeLineNoMatch ==
    (call.at = "parsed" /\ ~call.own) => call.result = NoToken

\* a codex resume line whose value has no whitespace has been parsed
C29_Witness ==
    /\ call.at = "parsed" /\ ~call.own
    /\ call.text = CodexResumeLine(call.token.value)
    /\ Len(call.token.value) > 1 /\ ~HasWhitespace(call.token.value)

\* ------------------------------------------------- termination of the runs
\* The consumers keep consuming: no run is closed from outside.
NextLive ==
    \E r \in Runs :
        \/ \E tok \in Tokens \cup {None} : Start(r, tok)
        \/ AcquireResumeLock(r)
        \/ Spawn(r)
        \/ \E l \in ClaudeLines \cup CodexLines : ReadLine(r, l)
        \/ AcquireSession(r)
        \/ Eof(r)
        \/ \E code \in ExitCodes : Wait(r, code)

\* Every child eventually closes its output (Eof) and exits (Wait); the event
\* loop runs every task that is ready (Spawn); anyio.Lock hands a released
\* lock to its waiters in the order of their arrival, so a waiter that finds
\* the lock free again and again obtains it (strong fairness).
Fairness ==
    \A r \in Runs :
        /\ WF_vars(Spawn(r))
        /\ WF_vars(Eof(r))
        /\ WF_vars(\E code \in ExitCodes : Wait(r, code))
        /\ SF_vars(AcquireResumeLock(r))
        /\ SF_vars(AcquireSession(r))

SpecLive == Init /\ [][NextLive]_vars /\ Fairness

\* the run is suspended in an acquire of a lock another run holds
WaitsForLock(r) ==
    \/ pc[r] = "lock_wait" /\ ~LockFree(LockFor(resume_token[r]))
    \/ pc[r] = "acquire" /\ owner[session_lock[r]] \notin {0, r}

\* C30: when the children close their output and exit and the consumers keep
\* consuming, every run that was started eventually reaches its terminal
\* state; no run waits for a session lock for ever.
C30_EveryRunTerminates ==
    \A r \in Runs : (pc[r] # "idle") ~> Terminal(r)

\* the same for the runs of the codex runner alone
CodexRunsTerminate ==
    \A r \in Runs : (scope.engine = "codex" /\ pc[r] # "idle") ~> Terminal(r)

\* a run waits for a lock whose holder has already reached its terminal state
WaitsForFinishedHolder ==
    \E r \in Runs : \E l \in Locks :
        /\ WaitsForLock(r)
        /\ l = (IF pc[r] = "lock_wait" THEN LockFor(resume_token[r])
                ELSE session_lock[r])
        /\ owner[l] \in Runs
        /\ Terminal(owner[l])

\* two runs wait for the lock the other one holds
WaitInCycle ==
    \E r, q \in Runs :
        /\ r # q
        /\ pc[r] = "acquire" /\ owner[session_lock[r]] = q
        /\ pc[q] = "acquire" /\ owner[session_lock[q]] = r

\* ------------------------------------------------------ order of delivery
\* the events the step delivers to the caller of run r
Delivered(r) == SubSeq(out'[r], Len(out[r]) + 1, Len(out'[r]))

\* what the caller had received stays in front of what the step delivers
KeepsDelivered(r) ==
    /\ Len(out'[r]) >= Len(out[r])
    /\ SubSeq(out'[r], 1, Len(out[r])) = out[r]

\* the events the translator produces for line l, in its order; the records
\* CodexRunner._run handles itself never reach the translator
TranslatorEvents(r, l) ==
    IF engine[r] = "claude" THEN translate_claude_event(l, state[r]).events
    ELSE IF l.type \in {"thread.started", "item.started", "item.updated",
                        "item.completed"}
    THEN translate_codex_event(l)
    ELSE <<>>

\* the step hands a decoded line to the translator, which answers with
\* events other than a session record
TranslatesLine(r) ==
    /\ Handles(r)
    /\ ~IsUndecodable(json_line'[r])
    /\ TranslatorEvents(r, json_line'[r]) # <<>>
    /\ ~IsSessionRecord(TranslatorEvents(r, json_line'[r]))

C31_Step ==
    \A r \in Runs :
        /\ KeepsDelivered(r)
        /\ TranslatesLine(r) =>
              Delivered(r) = TranslatorEvents(r, json_line'[r])

\* C31: the events of a run reach the caller in the order of the lines they
\* come from (what was delivered for earlier lines stays in front), and the
\* events of one line are delivered in the order the translator produced them.
C31_DeliveredInLineOrder == [][C31_Step]_vars

\* a line that gave two events (permission warning, then the completed event)
\* was delivered after the event of an earlier line
C31_Witness ==
    \E r \in Runs :
        /\ Len(out[r]) >= 3
        /\ nread[r] >= 2
        /\ out[r][Len(out[r])].type = "completed"
        /\ out[r][Len(out[r]) - 1].type = "action"
        /\ out[r][Len(out[r]) - 1].kind = "warning"
        /\ out[r][Len(out[r]) - 1].title = "permission denied"
        /\ json_line[r].type = "result"

\* the session locks run r holds: the locks it holds other than the lock of
\* its resume token
SessionLocksHeld(r) == HeldBy(r) \ {resume_lock[r]}

\* C32: a run acquires at most one session lock in its stream loop. It holds
\* at most one session lock at a time, it holds none when it enters an
\* acquisition, and a run started with a resume token never enters one.
C32_OneSessionLockPerRun ==
    \A r \in Runs :
        /\ Cardinality(SessionLocksHeld(r)) <= 1
        /\ pc[r] = "acquire" =>
              (SessionLocksHeld(r) = {} /\ resume_token[r] = None)

\* ------------------------------------------------- the states of one run
\* The place of run r in the order spawning (1), awaiting-session (2),
\* streaming (3), draining-exit (4), terminal (5); 0 before it is started.
\* A run without resume token awaits its session until one is found.
Stage(p, tok, found) ==
    CASE p = "idle" -> 0
      [] p \in {"lock_wait", "spawn"} -> 1
      [] p \in {"stream", "acquire"} ->
           IF tok = None /\ found = None THEN 2 ELSE 3
      [] p = "wait" -> 4
      [] OTHER -> 5

\* the step adds a CompletedEvent that comes from no output line
SynthesizesCompleted(r) ==
    /\ nread'[r] = nread[r]
    /\ \E i \in (Len(out[r]) + 1)..Len(out'[r]) : out'[r][i].type = "completed"

C33_Step ==
    \A r \in Runs :
        /\ Stage(pc'[r], resume_token'[r], found_session'[r])
              >= Stage(pc[r], resume_token[r], found_session[r])
        /\ SynthesizesCompleted(r) =>
              /\ pc[r] = "wait"
              /\ rc'[r] \in ExitCodes
              /\ Terminal(r)'

\* C33: a run never moves back in the order spawning, awaiting-session,
\* streaming, draining-exit, terminal, and a CompletedEvent synthesized by the
\* runner is emitted only by the step that obtains the exit code, after the
\* output was exhausted.
C33_StatesInOrder == [][C33_Step]_vars

\* a run went through awaiting-session and streaming, its output ended and
\* the runner synthesized the CompletedEvent after the exit
C33_Witness ==
    \E r \in Runs :
        /\ pc[r] = "done"
        /\ resume_token[r] = None
        /\ found_session[r] # None
        /\ ~did_emit_completed[r]
        /\ rc[r] \in ExitCodes
        /\ Len(out[r]) >= 2
        /\ out[r][Len(out[r])].type = "completed"

\* ------------------------------------------ two runs on one runner object
MaxPairLines == IF NumRuns <= 2 THEN 2 ELSE 1

\* concurrent runs on one runner object, fed tool calls and results
InitPair ==
    /\ scope \in {[runs |-> Runs, engine |-> e, rich |-> FALSE, pair |-> TRUE,
                    maxlines |-> MaxPairLines] : e \in Engines}
    /\ InitRuns
    /\ call = NoCall

SpecPair == InitPair /\ [][Next]_vars

\* the step is one of run r
StepOf(r) ==
    \/ pc'[r] # pc[r]
    \/ nread'[r] # nread[r]

\* what belongs to run q alone: the locals of its _run, the translator state
\* it allocated and the events it has delivered
Private(q) ==
    <<state[q], final_answer[q], note_seq[q], turn_index[q],
      did_emit_completed[q], found_session[q], json_line[q], nread[q],
      out[q]>>

\* the completed tool events of run r answer a call run r itself started:
\* otherwise they are the synthetic "tool result" of kind tool
PairsWithOwnCalls(r) ==
    \A i \in Indexes(r, "action") :
        (/\ engine[r] = "claude"
         /\ out[r][i].phase = "completed"
         /\ out[r][i].kind \notin {"warning", "tool"})
        => \E j \in Indexes(r, "action") :
              /\ j < i
              /\ out[r][j].phase = "started"
              /\ out[r][j].id = out[r][i].id
              /\ out[r][j].kind = out[r][i].kind

\* the notes of run r are numbered 1, 2, ... in the order of their delivery
NotesCountedPerRun(r) ==
    LET notes == {i \in Indexes(r, "action") :
                     /\ Len(out[r][i].id) = 2
                     /\ out[r][i].id[1] = engine[r] \o ".note"}
    IN  \A i \in notes :
            out[r][i].id[2] = Cardinality({j \in notes : j <= i})

\* the answer of a success without result text is a text of the run itself
AnswerFromOwnText(r) ==
    \A i \in Indexes(r, "completed") :
        (out[r][i].ok /\ out[r][i].answer # "" /\ did_emit_completed[r])
        => out[r][i].answer = LastFreeText(r)

C34_Step ==
    \A r \in Runs :
        /\ \A q \in Runs \ {r} : StepOf(r) => Private(q)' = Private(q)
        /\ PairsWithOwnCalls(r)'
        /\ NotesCountedPerRun(r)'
        /\ AnswerFromOwnText(r)'

\* C34: in every interleaving of concurrent runs on one runner object a step
\* of one run leaves the translator state, the locals and the delivered
\* events of the other runs as they are; a tool result pairs only with a call
\* of its own run, the notes of a run are counted from 1 and an answer taken
\* from free text is the run's own text.
C34_TranslatorStatePrivate == [][C34_Step]_vars

\* one run has a tool call pending while another run, which called no tool,
\* received a tool result with the same id and delivered the synthetic event
C34_Witness ==
    \E r, q \in Runs :
        /\ r # q
        /\ engine[r] = "claude"
        /\ \E p \in state[r].pending_actions : p[1] = "x"
        /\ json_line[q].type = "user.tool_result"
        /\ json_line[q].id = "x"
        /\ Len(out[q]) > 0
        /\ out[q][Len(out[q])].type = "action"
        /\ out[q][Len(out[q])].kind = "tool"
        /\ out[q][Len(out[q])].phase = "completed"

\* ---------------------------------------------------- the stderr drain
\* STDERR_TAIL_LINES = 200
STDERR_TAIL_LINES == 200

\* chunks the child writes to stderr in one run at most
MaxChunks == STDERR_TAIL_LINES + 2

\* The chunks are numbered in the order the child writes them: the number of
\* the chunk drained last is the number of chunks drained so far.
Drained(r) ==
    IF stderr_chunks[r] = <<>> THEN 0
    ELSE stderr_chunks[r][Len(stderr_chunks[r])]

\* deque.append on an unbounded deque
RetainAll(chunks, c) == Append(chunks, c)

\* deque(maxlen=STDERR_TAIL_LINES).append: the oldest entry is dropped when
\* the deque is full
Retain(chunks, c) ==
    LET all == Append(chunks, c)
    IN  IF Len(all) > STDERR_TAIL_LINES
        THEN SubSeq(all, Len(all) - STDERR_TAIL_LINES + 1, Len(all))
        ELSE all

\* tg.start_soon(drain_stderr, proc_stderr, stderr_chunks, ...): the drain is
\* a task of the group that encloses the stream loop and proc.wait(), so it
\* runs whenever _run is suspended inside that group
Draining(r) == pc[r] \in {"stream", "acquire", "wait"}

\* drain_stderr reads one more chunk and appends it to stderr_chunks
Drain(r) ==
    /\ Draining(r)
    /\ Drained(r) < MaxChunks
    /\ stderr_chunks' =
          [stderr_chunks EXCEPT ![r] = Retain(@, Drained(r) + 1)]
    /\ UNCHANGED <<call, scope, engine, resume_token, pc, proc, owner,
                   resume_lock, session_lock, session_lock_acquired,
                   found_session, did_emit_completed, state, final_answer,
                   turn_index, note_seq, json_line, nread, rc, exc, out>>

\* one run whose child writes to stderr
InitDrain ==
    /\ scope \in {[runs |-> {1}, engine |-> e, rich |-> FALSE, pair |-> FALSE,
                    maxlines |-> 1] : e \in Engines}
    /\ InitRuns
    /\ call = NoCall

NextDrain ==
    \E r \in Runs :
        \/ \E tok \in Tokens \cup {None} : Start(r, tok)
        \/ AcquireResumeLock(r)
        \/ Spawn(r)
        \/ \E l \in ClaudeLines \cup CodexLines : ReadLine(r, l)
        \/ AcquireSession(r)
        \/ Eof(r)
        \/ \E code \in ExitCodes : Wait(r, code)
        \/ Close(r)
        \/ Drain(r)

SpecDrain == InitDrain /\ [][NextDrain]_vars

\* C35: the retained stderr tail never holds more than 200 entries and they
\* are the most recent chunks in their order; the drain can take the next
\* chunk while the run waits for an output line or for a session lock.
C35_TailBoundedAndDraining ==
    \A r \in Runs :
        /\ Len(stderr_chunks[r]) <= STDERR_TAIL_LINES
        /\ Len(stderr_chunks[r]) =
              (IF Drained(r) < STDERR_TAIL_LINES THEN Drained(r)
               ELSE STDERR_TAIL_LINES)
        /\ \A i \in 1..Len(stderr_chunks[r]) :
              stderr_chunks[r][i] = Drained(r) - Len(stderr_chunks[r]) + i
        /\ (pc[r] \in {"stream", "acquire"} /\ Drained(r) < MaxChunks)
              => ENABLED Drain(r)

\* more than 200 chunks were drained, the first was dropped, and the run is
\* in the acquisition of its session lock
C35_Witness ==
    \E r \in Runs :
        /\ pc[r] = "acquire"
        /\ Drained(r) = STDERR_TAIL_LINES + 1
        /\ Len(stderr_chunks[r]) = STDERR_TAIL_LINES
        /\ stderr_chunks[r][1] = 2

\* ------------------------------------------------ action classification
MaxChanges == 2

ActionKinds ==
    {"command", "tool", "file_change", "web_search", "note", "turn",
     "warning"}

\* tool names of a Claude tool_use block; "Frobnicate" is a name the
\* translator does not know, "" an empty name
ClaudeToolNames ==
    {"Bash", "Shell", "KillShell", "Edit", "Write", "NotebookEdit",
     "MultiEdit", "Read", "Glob", "Grep", "WebSearch", "WebFetch",
     "TodoWrite", "TodoRead", "AskUserQuestion", "Task", "Agent",
     "Frobnicate", ""}

\* item types of a Codex item record; "frobnicate" is an unknown type
CodexItemTypes ==
    {"command_execution", "mcp_tool_call", "tool_call", "web_search",
     "file_change", "reasoning", "todo_list", "error", "agent_message",
     "frobnicate"}

\* a path under the working directory, one outside it; "" is an absent key
InputPaths == {"", "/cwd/a", "/x/b"}

\* the `changes` of a file_change item: the path of each change, "" for a
\* change without path
ChangeLists == UNION {[1..n -> {"", "p", "q"}] : n \in 0..MaxChanges}

\* relativize_path: a path under the working directory loses that prefix
relativize_path(path) == IF path = "/cwd/a" THEN "a" ELSE path

\* _tool_input_path: the first of file_path, path that is a non-empty string
_tool_input_path(file_path, path) ==
    IF file_path # "" THEN file_path ELSE path

\* the title _tool_kind_and_title gives a tool call whose input holds
\* file_path and path (and no command, pattern, query, url or description)
_tool_title_of(name, file_path, path) ==
    LET found == _tool_input_path(file_path, path)
    IN  IF name \in {"Edit", "Write", "NotebookEdit", "MultiEdit"}
        THEN (IF found # "" THEN relativize_path(found) ELSE name)
        ELSE IF name = "Read" /\ found # ""
        THEN "read: " \o Backtick \o relativize_path(found) \o Backtick
        ELSE _tool_title(name)

\* _ACTION_KIND_MAP.get(item_type); "None" for a type the map lacks
_ACTION_KIND_MAP(item_type) ==
    CASE item_type = "command_execution" -> "command"
      [] item_type \in {"mcp_tool_call", "tool_call"} -> "tool"
      [] item_type = "web_search" -> "web_search"
      [] item_type = "file_change" -> "file_change"
      [] item_type \in {"reasoning", "todo_list"} -> "note"
      [] OTHER -> "None"

\* the kind of the action _translate_item_event builds for a completed
\* item, "None" when it builds none
_item_kind(item_type) ==
    IF item_type = "agent_message" THEN "None"
    ELSE IF item_type = "error" THEN "warning"
    ELSE _ACTION_KIND_MAP(item_type)

RECURSIVE JoinPaths(_)
\* ", ".join(paths)
JoinPaths(paths) ==
    IF Len(paths) = 1 THEN paths[1]
    ELSE paths[1] \o ", " \o JoinPaths(Tail(paths))

\* _format_change_summary
_format_change_summary(changes) ==
    LET paths == SelectSeq(changes, LAMBDA c : c # "")
    IN  IF paths = <<>>
        THEN (IF Len(changes) <= 0 THEN "files"
              ELSE ToString(Len(changes)) \o " files")
        ELSE JoinPaths(paths)

\* the title of the completed action of a Codex item with these changes
\* (and no command, query, name, text or items)
_item_title(item_type, changes) ==
    CASE item_type = "file_change" -> _format_change_summary(changes)
      [] item_type = "error" -> "codex item error"
      [] item_type = "tool_call" -> "tool"
      [] item_type = "todo_list" -> "todo"
      [] OTHER -> ""

InitClassify ==
    /\ scope = [runs |-> {}, engine |-> "claude", rich |-> FALSE,
                pair |-> FALSE, maxlines |-> 0]
    /\ InitRuns
    /\ call \in
          {[at |-> "record", engine |-> "claude", name |-> n,
            file_path |-> f, path |-> p, changes |-> <<>>,
            kind |-> "", title |-> ""] :
              n \in ClaudeToolNames, f \in InputPaths, p \in InputPaths}
          \cup
          {[at |-> "record", engine |-> "codex", name |-> t,
            file_path |-> "", path |-> "", changes |-> c,
            kind |-> "", title |-> ""] :
              t \in CodexItemTypes, c \in ChangeLists}

\* _tool_kind_and_title(name, tool_input)
ClassifyTool ==
    /\ call.at = "record"
    /\ call.engine = "claude"
    /\ call' = [call EXCEPT !.at = "classified",
                   !.kind = _tool_kind(call.name),
                   !.title = _tool_title_of(call.name, call.file_path,
                                            call.path)]
    /\ UNCHANGED runvars

\* _translate_item_event("item.completed", item)
ClassifyItem ==
    /\ call.at = "record"
    /\ call.engine = "codex"
    /\ call' = [call EXCEPT !.at = "classified",
                   !.kind = _item_kind(call.name),
                   !.title = _item_title(call.name, call.changes)]
    /\ UNCHANGED runvars

NextClassify == ClassifyTool \/ ClassifyItem

SpecClassify == InitClassify /\ [][NextClassify]_vars

\* the kind the listed names and record types are to get
ListedKind(name) ==
    CASE name \in {"Bash", "Shell", "KillShell", "command_execution"} ->
           "command"
      [] name \in {"Edit", "Write", "NotebookEdit", "MultiEdit",
                   "file_change"} -> "file_change"
      [] name \in {"WebSearch", "WebFetch", "web_search"} -> "web_search"
      [] name \in {"TodoWrite", "TodoRead", "todo_list", "reasoning"} ->
           "note"
      [] name = "error" -> "warning"
      [] OTHER -> "tool"

IsListed(name) ==
    name \in {"Bash", "Shell", "KillShell", "command_execution", "Edit",
              "Write", "NotebookEdit", "MultiEdit", "file_change",
              "WebSearch", "WebFetch", "web_search", "TodoWrite", "TodoRead",
              "todo_list", "reasoning", "error"}

\* C36 as stated: the listed names get the listed kinds and every other
\* Claude tool name gets the kind tool.
C36_ClassifiedAsListed ==
    (call.at = "classified" /\ (call.engine = "claude" \/ IsListed(call.name)))
    => call.kind = ListedKind(call.name)

\* C36, amended: the listed names get the listed kinds, AskUserQuestion gets
\* the kind note, every other Claude tool name gets the kind tool, and a
\* Codex record that yields an action gets a kind of the closed set.
C36_ClassificationTotal ==
    call.at = "classified" =>
        /\ call.engine = "claude" => call.kind \in ActionKinds
        /\ call.kind \in ActionKinds \cup {"None"}
        /\ IsListed(call.name) => call.kind = ListedKind(call.name)
        /\ (call.engine = "claude" /\ ~IsListed(call.name)) =>
              call.kind = (IF call.name = "AskUserQuestion" THEN "note"
                           ELSE "tool")

\* the shell tool KillShell was classified
C36_Witness ==
    /\ call.at = "classified"
    /\ call.name = "KillShell"
    /\ call.kind = "command"

\* the paths of the record that can be resolved
ResolvablePaths ==
    IF call.engine = "claude"
    THEN (IF _tool_input_path(call.file_path, call.path) # ""
          THEN <<_tool_input_path(call.file_path, call.path)>> ELSE <<>>)
    ELSE SelectSeq(call.changes, LAMBDA c : c # "")

\* titles that give a number of files ("files" stands for an empty change
\* list)
CountTitles ==
    {"files"} \cup {ToString(n) \o " files" : n \in 0..(MaxChanges + 1)}

\* C37: the title of a file_change action is the touched path (with the
\* working directory stripped) when exactly one path is resolvable, and a
\* path count when several paths are touched or none is resolvable.
C37_FileChangeTitle ==
    (call.at = "classified" /\ call.kind = "file_change") =>
        IF Len(ResolvablePaths) = 1
        THEN call.title \in {ResolvablePaths[1],
                             relativize_path(ResolvablePaths[1])}
        ELSE call.title \in CountTitles

\* the part of C37 the code keeps: one resolvable path is the title, and a
\* Codex item whose changes name no path is titled by their number
FileChangeTitleKept ==
    (call.at = "classified" /\ call.kind = "file_change") =>
        /\ Len(ResolvablePaths) = 1 =>
              call.title \in {ResolvablePaths[1],
                              relativize_path(ResolvablePaths[1])}
        /\ (Len(ResolvablePaths) = 0 /\ call.engine = "codex") =>
              call.title \in CountTitles

\* C38: every CompletedEvent with ok = true carries a resume token.
C38_SuccessCarriesResume ==
    \A r \in Runs :
        \A i \in Indexes(r, "completed") :
            out[r][i].ok => out[r][i].resume # None

\* --------------------------------------------------- pending tool calls
\* the ids in state.pending_actions of run r
PendingIds(r) == {p[1] : p \in state[r].pending_actions}

\* the events of run r about tool calls: their ids come from the backend
ToolIndexes(r) ==
    {i \in Indexes(r, "action") :
        Len(out[r][i].id) = 1 /\ out[r][i].kind # "warning"}

\* the ids of the tool calls whose started event was emitted and whose
\* result has not been seen since
OpenCalls(r) ==
    {out[r][i].id[1] : i \in {j \in ToolIndexes(r) :
        /\ out[r][j].phase = "started"
        /\ \A k \in ToolIndexes(r) :
              (k > j /\ out[r][k].id = out[r][j].id)
              => out[r][k].phase = "started"}}

C39_Step ==
    \A r \in Runs :
        /\ engine'[r] = "claude" => PendingIds(r)' = OpenCalls(r)'
        /\ (/\ Handles(r)
            /\ json_line'[r].type \notin {"assistant.tool_use",
                                          "user.tool_result"})
           => state'[r].pending_actions = state[r].pending_actions

\* C39: state.pending_actions holds exactly the ids of the tool calls whose
\* started event was emitted and whose result has not been seen; a record
\* other than a tool call or a tool result leaves the map as it is.
C39_PendingAreOpenCalls == [][C39_Step]_vars

\* a call was answered and the same id was called again: it is pending
C39_Witness ==
    \E r \in Runs :
        /\ engine[r] = "claude"
        /\ PendingIds(r) = {"x"}
        /\ Cardinality(ToolIndexes(r)) = 3
        /\ \E i \in ToolIndexes(r) : out[r][i].phase = "completed"
        /\ out[r][Len(out[r])].phase = "started"

\* ------------------------------------------------------------ chunk_text
MaxTextLen == 5
MaxLimit == 3

\* a letter, line feed and carriage return
TextChars == {"a", "\n", "\r"}

Texts == UNION {[1..n -> TextChars] : n \in 0..MaxTextLen}

\* "".join(parts)
RECURSIVE Concat(_)
Concat(parts) ==
    IF parts = <<>> THEN <<>> ELSE Head(parts) \o Concat(Tail(parts))

\* the length of the first line of a non-empty text, its line end included:
\* a line ends after "\n", after "\r\n" and after a "\r" that no "\n" follows
FirstLineLen(text) ==
    LET ends == {i \in 1..Len(text) :
                    \/ text[i] = "\n"
                    \/ /\ text[i] = "\r"
                       /\ (i = Len(text) \/ text[i + 1] # "\n")}
    IN  IF ends = {} THEN Len(text)
        ELSE CHOOSE i \in ends : \A j \in ends : i <= j

\* text.splitlines(keepends=True)
RECURSIVE splitlines(_)
splitlines(text) ==
    IF text = <<>> THEN <<>>
    ELSE <<SubSeq(text, 1, FirstLineLen(text))>>
         \o splitlines(SubSeq(text, FirstLineLen(text) + 1, Len(text)))

\* [line[i : i + limit] for i in range(0, len(line), limit)]
RECURSIVE HardSplit(_, _)
HardSplit(line, limit) ==
    IF Len(line) <= limit THEN <<line>>
    ELSE <<SubSeq(line, 1, limit)>>
         \o HardSplit(SubSeq(line, limit + 1, Len(line)), limit)

\* the buffer is dropped instead of being flushed
NoFlush(chunks, buf) == chunks

\* if buf: out.append("".join(buf))
Flush(chunks, buf) == IF buf # <<>> THEN Append(chunks, Concat(buf)) ELSE chunks

\* the loop of chunk_text over the remaining lines; size is len of the buffer
RECURSIVE ChunkLoop(_, _, _, _)
ChunkLoop(lines, chunks, buf, limit) ==
    IF lines = <<>> THEN Flush(chunks, buf)
    ELSE LET line == Head(lines)
             size == Len(Concat(buf))
         IN  IF Len(line) > limit
             THEN ChunkLoop(Tail(lines),
                            Flush(chunks, buf) \o HardSplit(line, limit),
                            <<>>, limit)
             ELSE IF size + Len(line) > limit
             THEN ChunkLoop(Tail(lines), Append(chunks, Concat(buf)),
                            <<line>>, limit)
             ELSE ChunkLoop(Tail(lines), chunks, Append(buf, line), limit)

chunk_text(text, limit) ==
    IF Len(text) <= limit THEN <<text>>
    ELSE ChunkLoop(splitlines(text), <<>>, <<>>, limit)

\* a piece with its indices, as the tuple (part, start, end)
Piece(part, start, end) == [part |-> part, start |-> start, end |-> end]

\* the hard split of a line that starts at line_start
RECURSIVE HardSplitAt(_, _, _)
HardSplitAt(line, limit, line_start) ==
    IF Len(line) <= limit
    THEN <<Piece(line, line_start, line_start + Len(line))>>
    ELSE <<Piece(SubSeq(line, 1, limit), line_start, line_start + limit)>>
         \o HardSplitAt(SubSeq(line, limit + 1, Len(line)), limit,
                        line_start + limit)

\* the loop of _chunk_text_with_indices; pos is the start of the next line
RECURSIVE IndexLoop(_, _, _, _, _, _)
IndexLoop(lines, chunks, buf, buf_start, pos, limit) ==
    IF lines = <<>>
    THEN (IF buf # <<>> THEN Append(chunks, Piece(Concat(buf), buf_start, pos))
          ELSE chunks)
    ELSE LET line == Head(lines)
             size == Len(Concat(buf))
             line_end == pos + Len(line)
         IN  IF Len(line) > limit
             THEN IndexLoop(Tail(lines),
                            (IF buf # <<>>
                             THEN Append(chunks, Piece(Concat(buf), buf_start,
                                                    pos))
                             ELSE chunks) \o HardSplitAt(line, limit, pos),
                            <<>>, line_end, line_end, limit)
             ELSE IF size + Len(line) > limit
             THEN IndexLoop(Tail(lines),
                            Append(chunks, Piece(Concat(buf), buf_start, pos)),
                            <<line>>, pos, line_end, limit)
             ELSE IndexLoop(Tail(lines), chunks, Append(buf, line),
                            IF buf = <<>> THEN pos ELSE buf_start,
                            line_end, limit)

_chunk_text_with_indices(text, limit) ==
    IF Len(text) <= limit THEN <<Piece(text, 0, Len(text))>>
    ELSE IndexLoop(splitlines(text), <<>>, <<>>, 0, 0, limit)

InitChunk ==
    /\ scope = [runs |-> {}, engine |-> "codex", rich |-> FALSE,
                pair |-> FALSE, maxlines |-> 0]
    /\ InitRuns
    /\ call \in {[at |-> "text", text |-> t, limit |-> n, pieces |-> <<>>,
                  indexed |-> <<>>] : t \in Texts, n \in 1..MaxLimit}

ChunkText ==
    /\ call.at = "text"
    /\ call' = [call EXCEPT !.at = "chunked",
                   !.pieces = chunk_text(call.text, call.limit)]
    /\ UNCHANGED runvars

ChunkTextWithIndices ==
    /\ call.at = "chunked"
    /\ call' = [call EXCEPT !.at = "indexed",
                   !.indexed = _chunk_text_with_indices(call.text, call.limit)]
    /\ UNCHANGED runvars

NextChunk == ChunkText \/ ChunkTextWithIndices

SpecChunk == InitChunk /\ [][NextChunk]_vars

\* text[start:end]
Slice(text, start, end) == SubSeq(text, start + 1, end)

\* C40: chunk_text returns a non-empty list of pieces, their concatenation
\* is the text and none is longer than the limit; _chunk_text_with_indices
\* returns the same pieces and each is text[start:end] for its indices.
C40_ChunksCoverText ==
    /\ call.at \in {"chunked", "indexed"} =>
          /\ Len(call.pieces) >= 1
          /\ Concat(call.pieces) = call.text
          /\ \A i \in 1..Len(call.pieces) : Len(call.pieces[i]) <= call.limit
    /\ call.at = "indexed" =>
          /\ Len(call.indexed) = Len(call.pieces)
          /\ \A i \in 1..Len(call.indexed) :
                /\ call.indexed[i].part = call.pieces[i]
                /\ call.indexed[i].part =
                      Slice(call.text, call.indexed[i].start,
                            call.indexed[i].end)

\* a buffered line was flushed before a longer line was split by the limit
C40_Witness ==
    /\ call.at = "indexed"
    /\ call.limit = 2
    /\ call.text = <<"a", "\n", "a", "a", "a">>
    /\ call.pieces = << <<"a", "\n">>, <<"a", "a">>, <<"a">> >>

====
